---------------------------- MODULE Spec2Model ----------------------------
(***************************************************************************)
(* Model of the Zonnepanelen (APsystems ECU-3) scraping coordinator:       *)
(* ZonnepanelenDataCoordinator.fetch_data / _async_update_data of          *)
(* src/__init__.py and the consumers of coordinator.data in src/sensor.py. *)
(*                                                                         *)
(* Text is a sequence of one-character strings, so that the positional     *)
(* parsing of the code (re.split, str.split, lstrip, replace, slicing) is  *)
(* computed as the code computes it.  The text handed to the parsers is    *)
(* str(bytes) of the response: control characters are escaped there, so    *)
(* the only whitespace character that can occur in it is the space.        *)
(***************************************************************************)
EXTENDS Integers, Sequences, FiniteSets, TLC

(***************************************************************************)
(* Python string primitives                                                *)
(***************************************************************************)

Min(S) == CHOOSE x \in S : \A y \in S : x <= y

\* index of the first occurrence of d in s, 0 when there is none
Find(s, d) ==
    LET hits == {i \in 1..(Len(s) - Len(d) + 1) : SubSeq(s, i, i + Len(d) - 1) = d}
    IN  IF hits = {} THEN 0 ELSE Min(hits)

\* re.split(d, s) for a literal pattern d
RECURSIVE ReSplit(_, _)
ReSplit(s, d) ==
    LET i == Find(s, d)
    IN  IF i = 0 THEN <<s>>
        ELSE <<SubSeq(s, 1, i - 1)>> \o ReSplit(SubSeq(s, i + Len(d), Len(s)), d)

\* s.split(sep, maxsplit); maxsplit = -1 is "no limit"
RECURSIVE StrSplit(_, _, _)
StrSplit(s, sep, maxsplit) ==
    LET i == Find(s, sep)
    IN  IF maxsplit = 0 \/ i = 0 THEN <<s>>
        ELSE <<SubSeq(s, 1, i - 1)>>
             \o StrSplit(SubSeq(s, i + Len(sep), Len(s)), sep, maxsplit - 1)

\* s.lstrip(' ')
RECURSIVE Lstrip(_)
Lstrip(s) == IF s # <<>> /\ Head(s) = " " THEN Lstrip(Tail(s)) ELSE s

\* s.split(): the whitespace-delimited tokens of s
RECURSIVE SplitWs(_)
SplitWs(s) ==
    LET t == Lstrip(s)
        i == Find(t, <<" ">>)
    IN  IF t = <<>> THEN <<>>
        ELSE IF i = 0 THEN <<t>>
        ELSE <<SubSeq(t, 1, i - 1)>> \o SplitWs(SubSeq(t, i, Len(t)))

\* s.replace(a, b, 1)
ReplaceFirst(s, a, b) ==
    LET i == Find(s, a)
    IN  IF i = 0 THEN s
        ELSE SubSeq(s, 1, i - 1) \o b \o SubSeq(s, i + Len(a), Len(s))

\* s[lo:hi] (0-based, hi exclusive, clamped to the length as Python does)
Slice(s, lo, hi) == SubSeq(s, lo + 1, IF hi < Len(s) THEN hi ELSE Len(s))

\* the outcome of an expression that may raise IndexError
Ok(v) == [ok |-> TRUE, val |-> v]
IndexError == [ok |-> FALSE, val |-> <<>>]

\* seq[k] with Python's 0-based index
Item(seq, k) == IF k + 1 <= Len(seq) THEN Ok(seq[k + 1]) ELSE IndexError

\* d[k] = v on a dict
Put(d, k, v) == [x \in (DOMAIN d) \cup {k} |-> IF x = k THEN v ELSE d[x]]

(***************************************************************************)
(* Tokens of the two pages                                                 *)
(***************************************************************************)
TrDetail == <<"<", "t", "r", " ">>          \* '<tr '
TdDetail == <<"<", "t", "d">>               \* '<td'
TrStats  == <<"<", "t", "r", ">">>          \* '<tr>'
TdStats  == <<"<", "t", "d", ">">>          \* '<td>'
Zero     == <<"0">>

(***************************************************************************)
(* Panel Record Parser (detail page)                                       *)
(***************************************************************************)

\* .replace("-", "0", 1) on an extracted token
NormaliseDashDropped(token) == token
NormaliseDash(token) == ReplaceFirst(token, <<"-">>, Zero)

\* cell.split(">", 2)[1].lstrip(' ').split()[0]: the value token of a cell
CellToken(cell) ==
    LET inner == Item(StrSplit(cell, <<">">>, 2), 1)
    IN  IF ~inner.ok THEN IndexError ELSE Item(SplitWs(Lstrip(inner.val)), 0)

\* cell.split(">", 2)[1].lstrip(' ').split()[0].replace("-", "0", 1)
CellValue(cell) ==
    LET tok == CellToken(cell)
    IN  IF ~tok.ok THEN IndexError ELSE Ok(NormaliseDash(tok.val))

\* fields[k].split(">", 2)[1]...  with fields[k] itself possibly out of range
FieldValue(fields, k) ==
    LET cell == Item(fields, k)
    IN  IF ~cell.ok THEN IndexError ELSE CellValue(cell.val)

SegmentLimit == 7
ShortLayout == <<[key |-> "power", idx |-> 2], [key |-> "volt", idx |-> 3]>>
LongLayout ==
    <<[key |-> "power", idx |-> 2], [key |-> "freq", idx |-> 3],
      [key |-> "volt", idx |-> 4], [key |-> "temp", idx |-> 5]>>

LayoutOf(fields) == IF Len(fields) < SegmentLimit THEN ShortLayout ELSE LongLayout

\* the assignments inside the try block, in order; the first one that raises
\* leaves the block, the keys assigned before it stay
RECURSIVE AssignInOrder(_, _, _, _)
AssignInOrder(rec, fields, layout, i) ==
    IF i > Len(layout) THEN [rec |-> rec, raised |-> FALSE]
    ELSE LET v == FieldValue(fields, layout[i].idx)
         IN  IF ~v.ok THEN [rec |-> rec, raised |-> TRUE]
             ELSE AssignInOrder(Put(rec, layout[i].key, v.val), fields, layout, i + 1)

\* the except branch: defaults for power and volt only
PanelDefaults(rec) ==
    LET r1 == IF "power" \in DOMAIN rec THEN rec ELSE Put(rec, "power", Zero)
    IN  IF "volt" \in DOMAIN r1 THEN r1 ELSE Put(r1, "volt", Zero)

\* data[panel_id] = {} followed by the try/except of one row
PanelRecord(fields) ==
    LET r == AssignInOrder(<<>>, fields, LayoutOf(fields), 1)
    IN  IF r.raised THEN PanelDefaults(r.rec) ELSE r.rec

\* fields[1][1:15]: the 14 characters after the cell's first character
PanelIdWholeCell(fields) == fields[2]
PanelId(fields) == Slice(fields[2], 1, 15)

\* rows with fewer than 2 segments are skipped
MinSegments == 2
IsPanelRow(fields) == Len(fields) >= MinSegments

\* the loop over lines[1:], writing into the dict of panels
RECURSIVE PanelLoop(_, _, _)
PanelLoop(panels, lines, n) ==
    IF n > Len(lines) THEN panels
    ELSE LET fields == ReSplit(lines[n], TdDetail)
         IN  IF ~IsPanelRow(fields) THEN PanelLoop(panels, lines, n + 1)
             ELSE PanelLoop(Put(panels, PanelId(fields), PanelRecord(fields)), lines, n + 1)

\* the rows of the detail page that get a record
DetailLines(text) == ReSplit(text, TrDetail)
ParsePanelDetails(panels, text) == PanelLoop(panels, DetailLines(text), 2)

(***************************************************************************)
(* System Stats Parser (overview page)                                     *)
(***************************************************************************)
MinStatsLines == 13

\* re.split('<td>', line)[1].split()[0]
StatsToken(line) ==
    LET cell == Item(ReSplit(line, TdStats), 1)
    IN  IF ~cell.ok THEN IndexError ELSE Item(SplitWs(cell.val), 0)

\* re.split('<td>', line)[1].split('<')[0]
StatsUpToTag(line) ==
    LET cell == Item(ReSplit(line, TdStats), 1)
    IN  IF ~cell.ok THEN IndexError ELSE Item(StrSplit(cell.val, <<"<">>, -1), 0)

\* the five assignments in source order, with the line each one reads
StatsLayout ==
    <<[key |-> "lifetime", line |-> 2, upToTag |-> FALSE],
      [key |-> "state",    line |-> 3, upToTag |-> FALSE],
      [key |-> "day",      line |-> 4, upToTag |-> FALSE],
      [key |-> "online",   line |-> 7, upToTag |-> TRUE],
      [key |-> "signal",   line |-> 12, upToTag |-> TRUE]>>

StatsValue(lines, e) ==
    IF e.upToTag THEN StatsUpToTag(lines[e.line + 1]) ELSE StatsToken(lines[e.line + 1])

\* the assignments inside the inner try block: an IndexError leaves the
\* block and the keys assigned before it stay in data
RECURSIVE AssignStats(_, _, _)
AssignStats(fields, lines, i) ==
    IF i > Len(StatsLayout) THEN [fields |-> fields, raised |-> FALSE]
    ELSE LET v == StatsValue(lines, StatsLayout[i])
         IN  IF ~v.ok THEN [fields |-> fields, raised |-> TRUE]
             ELSE AssignStats(Put(fields, StatsLayout[i].key, v.val), lines, i + 1)

StatsLines(text) == ReSplit(text, TrStats)
EnoughStatsLines(lines) == Len(lines) >= MinStatsLines

ParseStatistics(fields, text) ==
    LET lines == StatsLines(text)
    IN  IF EnoughStatsLines(lines) THEN AssignStats(fields, lines, 1).fields ELSE fields


(***************************************************************************)
(* Snapshots: the dict built by fetch_data, split into its system fields   *)
(* (keys state, lifetime, day, online, signal) and its panel records (all  *)
(* other keys), as sensor.py tells them apart.  The history field built    *)
(* records the poll cycles whose extraction wrote a key of the snapshot.   *)
(***************************************************************************)
VARIABLES
    pc,                  \* position of the poll cycle: idle, details, statistics, merge
    cycle,               \* number of poll cycles started
    candidate,           \* fetch_data's local dict `data`
    connection_error,    \* fetch_data's local `connection_error` is set
    data,                \* coordinator.data, read by the consumers
    last_update_success, \* coordinator.last_update_success
    prev,                \* history: coordinator.data when the cycle started
    detailRes,           \* history: what the detail-page fetch of the cycle gave
    statsRes,            \* history: what the overview-page fetch of the cycle gave
    outcome,             \* history: how the cycle ended
    seen,                \* the snapshot a consumer read last, and when it read it
    input,               \* parser checks: the markup under test
    output               \* parser checks: what the parser made of it

vars == <<pc, cycle, candidate, connection_error, data, last_update_success,
          prev, detailRes, statsRes, outcome, seen, input, output>>
pollVars == <<pc, cycle, candidate, connection_error, data, last_update_success,
              prev, detailRes, statsRes, outcome, seen>>

None == [none |-> TRUE]
EmptyDict == [fields |-> <<>>, panels |-> <<>>, built |-> {}]
IsEmpty(d) == d.fields = <<>> /\ d.panels = <<>>
\* Python truthiness of coordinator.data: None and {} are both false
Truthy(d) == d # None /\ ~IsEmpty(d)

SystemKeys == {"state", "lifetime", "day", "online", "signal"}
DefaultFields == [k \in SystemKeys |-> Zero]

(***************************************************************************)
(* Markup served by the device (inputs, rendered as str(bytes) text)       *)
(***************************************************************************)
RECURSIVE Concat(_)
Concat(seqs) == IF seqs = <<>> THEN <<>> ELSE Head(seqs) \o Concat(Tail(seqs))

SeqsUpTo(S, n) == UNION {[1..k -> S] : k \in 0..n}

CloseTd == <<"<", "/", "t", "d", ">">>
PagePrefix == <<"b", "'">>
IdStem == <<"4", "0", "4", "0", "0", "0", "0", "1", "2", "3", "4", "5", "6">>
PanelIdOf(n) == IdStem \o <<CHOOSE c \in {"1", "2", "3", "4", "5", "6", "7", "8", "9"} :
                              c = ToString(n)>>

\* value cells, as the text that follows '<td'
GoodA   == <<">", " ", "4", "2", " ", "W", " ">> \o CloseTd   \* token 42
GoodB   == <<">", "7", " ">> \o CloseTd                       \* token 7
Dash    == <<">", " ", "-", " ">> \o CloseTd                  \* token -
Minus   == <<">", "-", "5", " ">> \o CloseTd                  \* token -5
Blank   == <<">", " ", ">">>                                  \* no token before the next '>'

\* one '<tr ' row: an identifier cell and value cells, or noise without cells
RowText(row) ==
    <<"c", ">">> \o
    (IF row.noise THEN <<>>
     ELSE TdDetail \o <<">">> \o row.id \o <<" ">> \o CloseTd
          \o Concat([i \in 1..Len(row.cells) |-> TdDetail \o row.cells[i]]))

DetailText(rows) ==
    PagePrefix \o Concat([i \in 1..Len(rows) |-> TrDetail \o RowText(rows[i])]) \o <<"'">>

PanelRow(n, cells) == [noise |-> FALSE, id |-> PanelIdOf(n), cells |-> cells]
NoiseRow == [noise |-> TRUE, id |-> <<>>, cells |-> <<>>]

\* one overview row: a label and, unless the row is damaged, a '<td>' value
StatsRowText(value, damaged) ==
    <<"n">> \o (IF damaged THEN <<>> ELSE TdStats \o value \o <<" ", "k">> \o CloseTd)

\* an overview page of n lines (n - 1 '<tr>' rows); line `bad` lacks its value
StatsValueAt(k, state) == IF k = 3 THEN state ELSE <<"5", ToString(k % 10)>>
StatsText(n, state, bad) ==
    PagePrefix \o
    Concat([i \in 1..(n - 1) |-> TrStats \o StatsRowText(StatsValueAt(i, state), i = bad)])
    \o <<"'">>

(***************************************************************************)
(* What one urlopen(...).read() can give                                   *)
(***************************************************************************)
MaxCycles == 3        \* poll cycles in a run

Page(text) == [kind |-> "page", text |-> text]
URLError == [kind |-> "URLError", text |-> <<>>]
OtherException == [kind |-> "Exception", text |-> <<>>]   \* e.g. a read timeout
NotFetched == [kind |-> "none", text |-> <<>>]

ShortCells == <<GoodA, GoodB, GoodA, GoodB>>          \* a row of 6 segments
LongCells == <<GoodA, GoodB, Dash, GoodA, GoodB>>     \* a row of 7 segments
\* the detail page: without rows, with one short row, with a long and a short row
PollDetailResults ==
    {Page(DetailText(<<>>)),
     Page(DetailText(<<PanelRow(1, ShortCells)>>)),
     Page(DetailText(<<PanelRow(1, LongCells), PanelRow(2, ShortCells)>>)),
     URLError, OtherException}
\* the overview page: complete (online, offline), with the state row damaged,
\* one line short of the minimum
PollStatsResults ==
    {Page(StatsText(MinStatsLines, <<"1">>, 0)),
     Page(StatsText(MinStatsLines, Zero, 0)),
     Page(StatsText(MinStatsLines, <<"1">>, 3)),
     Page(StatsText(MinStatsLines - 1, <<"1">>, 0)),
     URLError, OtherException}

(***************************************************************************)
(* fetch_data, step by step                                                *)
(***************************************************************************)

\* line 124, data = {}: the candidate is a fresh private dict
NewCandidateCarriedOver == IF data = None THEN EmptyDict ELSE data
NewCandidate == EmptyDict

\* history: a key of the candidate was written from this page in cycle c
Stamp(before, after, c) == IF after # before THEN {c} ELSE {}

\* lines 129-171: the detail page
AfterDetails(cand, res, c) ==
    IF res.kind = "page"
    THEN LET p == ParsePanelDetails(cand.panels, res.text)
         IN  [cand EXCEPT !.panels = p,
                          !.built = @ \cup Stamp(<<>>, ParsePanelDetails(<<>>, res.text), c)]
    ELSE cand

\* lines 174-202: the overview page
AfterStatistics(cand, res, c) ==
    IF res.kind = "page"
    THEN LET f == ParseStatistics(cand.fields, res.text)
         IN  [cand EXCEPT !.fields = f,
                          !.built = @ \cup Stamp(<<>>, ParseStatistics(<<>>, res.text), c)]
    ELSE cand

\* lines 167-169 and 198-200: only URLError sets connection_error
SetsConnectionError(res) == res.kind = "URLError"

\* lines 209-217: the default offline values
DefaultSnapshotNoState == [fields |-> [k \in SystemKeys \ {"state"} |-> Zero],
                           panels |-> <<>>, built |-> {}]
DefaultSnapshot == [fields |-> DefaultFields, panels |-> <<>>, built |-> {}]

\* lines 204-220: raise the connection error, or return data / the defaults
FetchDataTailNoRaise(cand, connErr) ==
    [raised |-> FALSE, data |-> IF IsEmpty(cand) THEN DefaultSnapshot ELSE cand]
FetchDataTailAlwaysRaise(cand, connErr) ==
    IF connErr THEN [raised |-> TRUE, data |-> None]
    ELSE [raised |-> FALSE, data |-> IF IsEmpty(cand) THEN DefaultSnapshot ELSE cand]
FetchDataTail(cand, connErr) ==
    IF connErr /\ IsEmpty(cand) THEN [raised |-> TRUE, data |-> None]
    ELSE IF IsEmpty(cand) THEN [raised |-> FALSE, data |-> DefaultSnapshot]
    ELSE [raised |-> FALSE, data |-> cand]

\* lines 105-120: the except branches return self.data or raise UpdateFailed
AsyncUpdateDataNoCache(fetched, selfData) ==
    IF ~fetched.raised THEN [failed |-> FALSE, data |-> fetched.data]
    ELSE [failed |-> TRUE, data |-> None]
AsyncUpdateData(fetched, selfData) ==
    IF ~fetched.raised THEN [failed |-> FALSE, data |-> fetched.data]
    ELSE IF Truthy(selfData) THEN [failed |-> FALSE, data |-> selfData]
    ELSE [failed |-> TRUE, data |-> None]

\* consumers keep no state of their own: seen records the last read made since
\* the current cycle started
NothingSeen == [snap |-> None, at |-> "never"]

Init ==
    /\ pc = "idle"
    /\ cycle = 0
    /\ candidate = EmptyDict
    /\ connection_error = FALSE
    /\ data = None
    /\ last_update_success = TRUE
    /\ prev = None
    /\ detailRes = NotFetched
    /\ statsRes = NotFetched
    /\ outcome = "none"
    /\ seen = NothingSeen
    /\ input = [kind |-> "none"]
    /\ output = [kind |-> "none"]

\* the coordinator's timer starts a refresh: fetch_data begins (lines 122-126)
StartUpdate ==
    /\ pc = "idle"
    /\ cycle < MaxCycles
    /\ pc' = "details"
    /\ cycle' = cycle + 1
    /\ candidate' = NewCandidate
    /\ connection_error' = FALSE
    /\ prev' = data
    /\ detailRes' = NotFetched
    /\ statsRes' = NotFetched
    /\ outcome' = "running"
    /\ seen' = NothingSeen
    /\ UNCHANGED <<data, last_update_success, input, output>>

\* lines 128-171
FetchPanelDetails(res) ==
    /\ pc = "details"
    /\ pc' = "statistics"
    /\ detailRes' = res
    /\ candidate' = AfterDetails(candidate, res, cycle)
    /\ connection_error' = (connection_error \/ SetsConnectionError(res))
    /\ UNCHANGED <<cycle, data, last_update_success, prev, statsRes, outcome, seen,
                   input, output>>

\* lines 173-202
FetchStatistics(res) ==
    /\ pc = "statistics"
    /\ pc' = "merge"
    /\ statsRes' = res
    /\ candidate' = AfterStatistics(candidate, res, cycle)
    /\ connection_error' = (connection_error \/ SetsConnectionError(res))
    /\ UNCHANGED <<cycle, data, last_update_success, prev, detailRes, outcome, seen,
                   input, output>>

\* lines 204-220, then _async_update_data's handlers (lines 105-120), then the
\* coordinator stores the returned dict in one assignment, or records the failure
FinishUpdate ==
    /\ pc = "merge"
    /\ pc' = "idle"
    /\ LET fetched == FetchDataTail(candidate, connection_error)
           result == AsyncUpdateData(fetched, data)
       IN  /\ data' = IF result.failed THEN data ELSE result.data
           /\ last_update_success' = ~result.failed
           /\ outcome' = IF result.failed THEN "failed"
                         ELSE IF fetched.raised THEN "cached"
                         ELSE IF IsEmpty(candidate) THEN "default"
                         ELSE "fresh"
    /\ UNCHANGED <<cycle, candidate, connection_error, prev, detailRes, statsRes, seen,
                   input, output>>

\* a consumer reads coordinator.data (sensor.py native_value / available)
Read ==
    /\ seen' = [snap |-> data, at |-> pc]
    /\ UNCHANGED <<pc, cycle, candidate, connection_error, data, last_update_success,
                   prev, detailRes, statsRes, outcome, input, output>>

Next ==
    \/ StartUpdate
    \/ \E res \in PollDetailResults : FetchPanelDetails(res)
    \/ \E res \in PollStatsResults : FetchStatistics(res)
    \/ FinishUpdate
    \/ Read

Spec == Init /\ [][Next]_vars

(***************************************************************************)
(* The parsers on their own: Init draws one markup, an action parses it    *)
(***************************************************************************)
MaxCellLen == 4       \* characters of a value cell under test
MaxValueCells == 5    \* value cells of a single row under test (7 segments)
MaxRows == 2          \* rows of a detail page under test

CellAlphabet == {">", " ", "-", "7"}
CellInputs == {[kind |-> "cell", text |-> t] : t \in SeqsUpTo(CellAlphabet, MaxCellLen)}

RowCells == {GoodA, GoodB, Dash, Minus, Blank}
SingleRows == {<<PanelRow(1, c)>> : c \in SeqsUpTo(RowCells, MaxValueCells)}
PageRows == {PanelRow(n, c) : n \in 1..MaxRows, c \in {ShortCells, LongCells}}
            \cup {NoiseRow}
DetailInputs ==
    {[kind |-> "detail", rows |-> r, text |-> DetailText(r)] :
        r \in SingleRows \cup SeqsUpTo(PageRows, MaxRows)}

StatsInputs ==
    {[kind |-> "stats", lines |-> n, bad |-> b, text |-> StatsText(n, <<"1">>, b)] :
        n \in 1..(MinStatsLines + 1), b \in 0..MinStatsLines}

InitParse ==
    /\ pc = "idle"
    /\ cycle = 0
    /\ candidate = EmptyDict
    /\ connection_error = FALSE
    /\ data = None
    /\ last_update_success = TRUE
    /\ prev = None
    /\ detailRes = NotFetched
    /\ statsRes = NotFetched
    /\ outcome = "none"
    /\ seen = NothingSeen
    /\ input \in CellInputs \cup DetailInputs \cup StatsInputs
    /\ output = [kind |-> "none"]

\* one value cell through the extraction chain of lines 150-156
ParseCell ==
    /\ input.kind = "cell"
    /\ output.kind = "none"
    /\ output' = [kind |-> "cell", res |-> CellValue(input.text)]
    /\ UNCHANGED <<pollVars, input>>

\* one detail page through lines 136-163
ParseDetail ==
    /\ input.kind = "detail"
    /\ output.kind = "none"
    /\ output' = [kind |-> "detail", panels |-> ParsePanelDetails(<<>>, input.text)]
    /\ UNCHANGED <<pollVars, input>>

\* one overview page through lines 181-197
ParseStats ==
    /\ input.kind = "stats"
    /\ output.kind = "none"
    /\ output' = [kind |-> "stats", fields |-> ParseStatistics(<<>>, input.text)]
    /\ UNCHANGED <<pollVars, input>>

NextParse == ParseCell \/ ParseDetail \/ ParseStats

ParseSpec == InitParse /\ [][NextParse]_vars

(***************************************************************************)
(* Properties of the poll cycle (under Spec)                               *)
(***************************************************************************)

\* a poll cycle has run to its end; prev, detailRes, statsRes and candidate
\* describe that cycle
Done == pc = "idle" /\ outcome # "none"
ConnErrInCycle == detailRes = URLError \/ statsRes = URLError
BothConnFail == detailRes = URLError /\ statsRes = URLError
DocumentedDefault ==
    [state |-> <<"0">>, lifetime |-> <<"0">>, day |-> <<"0">>, online |-> <<"0">>,
     signal |-> <<"0">>]

\* C1: once a cycle has published a snapshot S1, a following cycle in which
\* both fetches raise a connectivity error publishes S1 unchanged and raises
\* nothing; as the held snapshot is again S1, this repeats for every further
\* failing cycle.
C1_IdempotentFallback ==
    (Done /\ BothConnFail /\ prev # None) => (data = prev /\ last_update_success)

\* a snapshot built in cycle 1 is still served after a third cycle without
\* connectivity
C1_Witness ==
    /\ Done /\ BothConnFail /\ cycle >= 3
    /\ prev # None /\ data = prev /\ data.built = {1}

\* C2: a cycle fails exactly when a connectivity error occurred in it, nothing
\* was extracted and no snapshot was published before; every other cycle
\* publishes a snapshot; a failing cycle leaves the stored snapshot as it was;
\* no cycle fails once a snapshot has been published.
C2_FailsExactlyWhen ==
    /\ Done =>
        /\ (~last_update_success) <=> (ConnErrInCycle /\ IsEmpty(candidate) /\ prev = None)
        /\ (~last_update_success) => data = prev
        /\ last_update_success => data # None
    /\ data # None => last_update_success

\* a second cycle in a row that failed with nothing cached
C2_Witness ==
    Done /\ ~last_update_success /\ cycle >= 2 /\ data = None /\ IsEmpty(candidate)

\* the overview page gave all five system fields
StatsComplete(res) ==
    res.kind = "page" /\ DOMAIN ParseStatistics(<<>>, res.text) = SystemKeys

\* C3 as stated: the visible snapshot is populated from a cycle in which both
\* pages were fetched and parsed, or is the snapshot published earlier; data
\* of only one page is never published.
C3_Original ==
    (Done /\ data # None) =>
        \/ data = prev
        \/ detailRes.kind = "page" /\ StatsComplete(statsRes)

\* what this cycle's two fetches yield when parsed into an empty dict
FromThisCycle ==
    AfterStatistics(AfterDetails(EmptyDict, detailRes, cycle), statsRes, cycle)

\* C3 as amended: the visible snapshot is either built within one cycle from
\* whatever the two fetches of that cycle yielded (both pages, one page only,
\* or the default when they yielded nothing), or is the snapshot published
\* before that cycle; keys written in different cycles are never mixed.
C3_OneCycleOrPrevious ==
    /\ data # None => Cardinality(data.built) <= 1
    /\ (Done /\ data # None) =>
        \/ data = prev
        \/ data = FromThisCycle /\ ~IsEmpty(data)
        \/ data = DefaultSnapshot /\ IsEmpty(FromThisCycle)

\* a snapshot holding the overview page's fields only replaced an earlier one
C3_Witness ==
    /\ Done /\ detailRes = URLError /\ prev # None /\ data # prev
    /\ data.panels = <<>> /\ DOMAIN data.fields = SystemKeys /\ data.built = {cycle}

\* C4: a cycle without connectivity error that extracted neither a system
\* field nor a panel record publishes exactly the documented default, with no
\* panels, and raises nothing.
C4_DefaultWhenNothingExtracted ==
    (Done /\ ~ConnErrInCycle /\ IsEmpty(candidate)) =>
        /\ last_update_success
        /\ data # None
        /\ data.fields = DocumentedDefault
        /\ data.panels = <<>>

\* both pages came back and neither had a recognisable row
C4_Witness ==
    /\ Done /\ detailRes.kind = "page" /\ statsRes.kind = "page"
    /\ IsEmpty(candidate) /\ data # None /\ data.fields = DocumentedDefault

\* C5: while a cycle is in progress the shared snapshot is the one from before
\* the cycle: a read made at any point of the cycle sees that snapshot, never
\* the candidate under construction, and no snapshot a consumer reads holds
\* keys written in different cycles.
C5_AtomicPublish ==
    /\ pc # "idle" => data = prev
    /\ seen.at \in {"details", "statistics", "merge"} => seen.snap = prev
    /\ (seen.at = "idle" /\ pc = "idle") => seen.snap = data
    /\ seen.snap # None => Cardinality(seen.snap.built) <= 1

\* a consumer read the old snapshot while the cycle already held new panel
\* records in its candidate
C5_Witness ==
    /\ pc = "merge" /\ seen.at = "statistics" /\ seen.snap # None
    /\ candidate.panels # <<>> /\ candidate.fields = <<>>
    /\ seen.snap.panels # candidate.panels

\* the ways a page can fail
DetailFailed == detailRes.kind \in {"URLError", "Exception"}
StatsFailed ==
    \/ statsRes.kind \in {"URLError", "Exception"}
    \/ statsRes.kind = "page" /\ ~EnoughStatsLines(StatsLines(statsRes.text))
    \/ statsRes.kind = "page" /\ EnoughStatsLines(StatsLines(statsRes.text))
       /\ AssignStats(<<>>, StatsLines(statsRes.text), 1).raised
StatsGaveFields == statsRes.kind = "page" /\ ParseStatistics(<<>>, statsRes.text) # <<>>
DetailGavePanels == detailRes.kind = "page" /\ ParsePanelDetails(<<>>, detailRes.text) # <<>>

\* C9: the overview page is fetched whatever the detail page did; when one
\* page fails in any way and the other gave at least one field or record, the
\* cycle raises nothing, does not fall back to the cache, and publishes the
\* candidate with the other page's data as the new stored snapshot.
C9_PagesIndependent ==
    /\ (pc = "merge" \/ Done) => statsRes # NotFetched
    /\ (Done /\ DetailFailed /\ StatsGaveFields) =>
        /\ last_update_success /\ data = candidate
        /\ data.fields = ParseStatistics(<<>>, statsRes.text)
    /\ (Done /\ StatsFailed /\ DetailGavePanels) =>
        /\ last_update_success /\ data = candidate
        /\ data.panels = ParsePanelDetails(<<>>, detailRes.text)

\* the overview page lost its connection, the detail page's panels replaced
\* the stored snapshot
C9_Witness ==
    /\ Done /\ statsRes = URLError /\ DetailGavePanels
    /\ prev # None /\ data # prev /\ data.panels # <<>> /\ data.fields = <<>>

\* C10 as stated: a cycle that extracted nothing does not replace the stored
\* snapshot.
C10_Original ==
    (Done /\ IsEmpty(candidate) /\ prev # None) => data = prev

\* C10 as amended: the stored snapshot is what the latest cycle that did not
\* fail returned.  A cycle that extracted something stores its candidate; a
\* cycle that extracted nothing and had no connectivity error stores the
\* default snapshot in place of the one stored before; a cycle that extracted
\* nothing and had a connectivity error keeps the stored snapshot, whether
\* that holds extracted data or the default.
C10_LatestReturnedIsStored ==
    Done =>
        /\ ~IsEmpty(candidate) => data = candidate
        /\ (IsEmpty(candidate) /\ ~ConnErrInCycle) =>
               data = [fields |-> DocumentedDefault, panels |-> <<>>, built |-> {}]
        /\ (IsEmpty(candidate) /\ ConnErrInCycle) => data = prev

\* extracted data was stored, a cycle put the default in its place, and the
\* next cycle, without connectivity, fell back to the default
C10_Witness ==
    /\ Done /\ BothConnFail /\ cycle >= 3
    /\ data = prev /\ data # None /\ data.built = {}
    /\ data.fields = DocumentedDefault

(***************************************************************************)
(* Properties of the parsers (under ParseSpec)                             *)
(***************************************************************************)

\* the page under test is one row with an identifier cell
OneRow == output.kind = "detail" /\ Len(input.rows) = 1 /\ ~input.rows[1].noise
\* the segments re.split('<td', row) gives: the row's head, the identifier
\* cell and the value cells
Segments(row) == 2 + Len(row.cells)
\* the token a value cell was written with, after the dash rule
Written(cell) ==
    IF cell = GoodA THEN <<"4", "2">>
    ELSE IF cell = GoodB THEN <<"7">>
    ELSE IF cell = Dash THEN <<"0">>
    ELSE <<"0", "5">>

RowsWithId == {i \in 1..Len(input.rows) : ~input.rows[i].noise}
IdsOfRows == {input.rows[i].id : i \in RowsWithId}

\* C7 as stated: N well-formed rows give exactly N records, keyed by the
\* 14-character identifier; rows of fewer than 2 segments give none.
C7_Original ==
    output.kind = "detail" =>
        /\ Cardinality(DOMAIN output.panels) = Cardinality(RowsWithId)
        /\ DOMAIN output.panels = IdsOfRows

\* C7 as amended: the records are keyed by the 14-character identifiers of
\* the rows of 2 or more segments, one record per distinct identifier (a
\* later row with the same identifier overwrites the earlier one); N rows
\* with pairwise distinct identifiers give exactly N records; rows of fewer
\* than 2 segments give none.
C7_OneRecordPerIdentifier ==
    output.kind = "detail" =>
        /\ DOMAIN output.panels = IdsOfRows
        /\ \A id \in DOMAIN output.panels : Len(id) = 14
        /\ Cardinality(IdsOfRows) = Cardinality(RowsWithId)
               => Cardinality(DOMAIN output.panels) = Cardinality(RowsWithId)

\* a page of two rows with different identifiers gave two records
C7_Witness ==
    /\ output.kind = "detail" /\ Len(input.rows) = 2
    /\ Cardinality(IdsOfRows) = 2 /\ Cardinality(DOMAIN output.panels) = 2

\* the cell under test has a value token that begins with a dash
DashToken ==
    /\ output.kind = "cell"
    /\ CellToken(input.text).ok
    /\ Head(CellToken(input.text).val) = "-"

\* C8 as stated: a value token that begins with a dash gives the field "0".
C8_Original == DashToken => output.res = Ok(<<"0">>)

\* C8 as amended: a value token that begins with a dash gives the token with
\* that dash replaced by a zero, so a lone dash gives "0"; the field is never
\* "-" and never empty.
C8_LeadingDashBecomesZero ==
    DashToken =>
        LET tok == CellToken(input.text).val
        IN  /\ output.res.ok
            /\ output.res.val = <<"0">> \o Tail(tok)
            /\ tok = <<"-">> => output.res.val = <<"0">>
            /\ output.res.val # <<"-">> /\ output.res.val # <<>>

\* a cell holding a lone dash was extracted as "0"
C8_Witness ==
    DashToken /\ CellToken(input.text).val = <<"-">> /\ output.res = Ok(<<"0">>)

(***************************************************************************)
(* Exception handling of the two parsers                                   *)
(***************************************************************************)

\* the overview page had enough lines and one of the five extractions raised
StatsRaised ==
    /\ statsRes.kind = "page"
    /\ EnoughStatsLines(StatsLines(statsRes.text))
    /\ AssignStats(<<>>, StatsLines(statsRes.text), 1).raised

\* C11 as stated (under Spec): when the overview page has at least 13 rows
\* and one of the five extractions raises, the candidate holds none of the
\* five system fields, and the panel records of the detail page are kept.
C11_Claim ==
    (Done /\ StatsRaised) =>
        /\ DOMAIN candidate.fields \cap SystemKeys = {}
        /\ detailRes.kind = "page" =>
               candidate.panels = ParsePanelDetails(<<>>, detailRes.text)

\* the keys of the layout a row of that many segments selects, in order
LayoutKeys(row) ==
    IF Segments(row) < 7 THEN <<"power", "volt">>
    ELSE <<"power", "freq", "volt", "temp">>
\* the value cell of the i-th field of the layout holds a token
Extractable(row, i) == i <= Len(row.cells) /\ row.cells[i] # Blank

\* C12 as stated (under ParseSpec): every field of the row's layout whose
\* extraction fails is "0", every field whose cell is extractable keeps its
\* value wherever the failing field stands, and the record is registered
\* under the identifier with all keys of its layout.
C12_Claim ==
    OneRow =>
        LET row == input.rows[1]
            keys == LayoutKeys(row)
        IN  /\ row.id \in DOMAIN output.panels
            /\ DOMAIN output.panels[row.id] = {keys[i] : i \in 1..Len(keys)}
            /\ \A i \in 1..Len(keys) :
                   keys[i] \in DOMAIN output.panels[row.id] =>
                       output.panels[row.id][keys[i]] =
                           (IF Extractable(row, i) THEN Written(row.cells[i])
                            ELSE <<"0">>)

(***************************************************************************)
(* Availability of the sensor entities (sensor.py)                         *)
(***************************************************************************)

\* the entities: one per system field, and one per panel and panel key; the
\* third panel is one the device never lists
SystemSensor(key) == [panel |-> <<>>, key |-> key]
PanelSensor(n, key) == [panel |-> PanelIdOf(n), key |-> key]
PanelKeys == {"power", "volt", "freq", "temp"}
Sensors ==
    {SystemSensor(k) : k \in SystemKeys}
    \cup {PanelSensor(n, k) : n \in {1, 2, 3}, k \in PanelKeys}

\* self.coordinator.data.get("state", "0")
SystemStateOnlineIfMissing(d) ==
    IF "state" \in DOMAIN d.fields THEN d.fields["state"] ELSE <<"1">>
SystemState(d) == IF "state" \in DOMAIN d.fields THEN d.fields["state"] ELSE Zero

\* ZonnepanelenSensor.available
Available(sensor, updateSucceeded, d) ==
    IF ~updateSucceeded THEN FALSE
    ELSE IF sensor.key \in {"lifetime", "day", "online", "signal"} THEN TRUE
    ELSE IF sensor.key = "state" THEN TRUE
    ELSE IF SystemState(d) = Zero THEN FALSE
    ELSE IF sensor.panel \notin DOMAIN d.panels THEN FALSE
    ELSE TRUE

\* C13: after any sequence of poll cycles a system-level sensor is available
\* exactly when the last update succeeded, whatever the state value and
\* whether or not the snapshot came from the cache; a panel-level sensor is
\* available exactly when the last update succeeded, the snapshot has a state
\* field other than "0" and the snapshot holds the panel's identifier.
C13_Availability ==
    Done =>
        \A s \in Sensors :
            IF s.key \in SystemKeys
            THEN Available(s, last_update_success, data) <=> last_update_success
            ELSE Available(s, last_update_success, data) <=>
                    /\ last_update_success
                    /\ data # None
                    /\ "state" \in DOMAIN data.fields
                    /\ data.fields["state"] # <<"0">>
                    /\ s.panel \in DOMAIN data.panels

\* the last update succeeded with panel records but without a state field:
\* the system sensors are available, no panel sensor is
C13_Witness ==
    /\ Done /\ last_update_success /\ data # None
    /\ "state" \notin DOMAIN data.fields /\ data.panels # <<>>
    /\ \A s \in Sensors :
           Available(s, last_update_success, data) <=> s.key \in SystemKeys
=============================================================================
